---- MODULE Spec2Model ----
(***************************************************************************)
(* Sensor_Stack_exercise: chunked filtering, grouped statistics, merging   *)
(* of partial aggregates and the two-pass outlier scan (main.py,           *)
(* src/filter.py, src/aggregator.py).                                      *)
(*                                                                         *)
(* Numbers.  Sensor values are float64 in the program.  The model takes    *)
(* integer values and carries every derived statistic as an exact          *)
(* rational [num, den] (den > 0, lowest terms), so "equal within           *)
(* floating-point tolerance" becomes exact equality.  A standard           *)
(* deviation is carried as its radicand: [nan, sq] stands for sqrt(sq),    *)
(* or for NaN when nan is TRUE; both sides of |v - mean| > 3 * std are     *)
(* non-negative, so the comparison is made on the squares.                 *)
(*                                                                         *)
(* Strings.  Names are ordered as Python orders str, through Lexicon.      *)
(* Timestamps are day numbers (day d is 2025-01-0d 00:00:00 UTC).          *)
(***************************************************************************)
EXTENDS Integers, Sequences, FiniteSets, TLC

VARIABLES
    lib_op,        \* name of the library function last called directly ("none" at start)
    lib_args,      \* the caller's argument objects as they are after that call
    lib_ret,       \* what that call returned (or the exception it raised)
    lib_rows,      \* raw rows behind lib_ret when lib_ret is an aggregate table
    pc,            \* position of main(): idle, first_pass, second_pass, done, no_data, raised
    cli,           \* the run's input: the csv (columns, rows) and the parsed arguments
    filter_by,     \* main's filter_by list
    chunk_num,     \* chunks consumed by the loop that is running
    agg_data,      \* main's agg_data: [is_none, rows]
    outliers_list, \* main's outliers_list, one entry per chunk that had outliers
    written,       \* csv files written so far: name -> content
    error          \* exception that ended main ("" while none)

lib_vars == <<lib_op, lib_args, lib_ret, lib_rows>>
main_vars == <<pc, cli, filter_by, chunk_num, agg_data, outliers_list, written, error>>
vars == <<lib_op, lib_args, lib_ret, lib_rows,
          pc, cli, filter_by, chunk_num, agg_data, outliers_list, written, error>>

----------------------------------------------------------------------------
(* Exact rational arithmetic (the value domain of float64 statistics).     *)

Abs(x) == IF x < 0 THEN -x ELSE x

RECURSIVE GCD(_, _)
GCD(a, b) == IF b = 0 THEN a ELSE GCD(b, a % b)

Rat(n, d) ==
    LET g == GCD(Abs(n), Abs(d))
        s == IF d < 0 THEN -1 ELSE 1
    IN  [num |-> (s * n) \div g, den |-> (s * d) \div g]

RatInt(n) == [num |-> n, den |-> 1]
RatAdd(a, b) == Rat(a.num * b.den + b.num * a.den, a.den * b.den)
RatSub(a, b) == Rat(a.num * b.den - b.num * a.den, a.den * b.den)
RatMul(a, b) == Rat(a.num * b.num, a.den * b.den)
RatDiv(a, b) == Rat(a.num * b.den, a.den * b.num)
RatLess(a, b) == a.num * b.den < b.num * a.den

\* np.sqrt(x): NaN for a negative radicand, else the root of x
Sqrt(x) == IF x.num < 0 THEN [nan |-> TRUE, sq |-> RatInt(0)]
           ELSE [nan |-> FALSE, sq |-> x]
NaNStd == [nan |-> TRUE, sq |-> RatInt(0)]

----------------------------------------------------------------------------
(* Strings in Python's str order.                                          *)

Lexicon == <<"d1", "d2", "hum", "humidity", "press", "pressure",
             "s1", "s2", "temp", "temperature", "u", "wind">>

StrRank(s) == CHOOSE i \in 1..Len(Lexicon) : Lexicon[i] = s
StrLess(a, b) == StrRank(a) < StrRank(b)

RECURSIVE TupleLess(_, _)
TupleLess(a, b) ==
    IF Len(a) = 0 \/ Len(b) = 0 THEN Len(a) < Len(b)
    ELSE IF a[1] = b[1] THEN TupleLess(Tail(a), Tail(b))
    ELSE StrLess(a[1], b[1])

\* the elements of a finite set of key tuples, ascending
RECURSIVE SortedKeys(_)
SortedKeys(S) ==
    IF S = {} THEN <<>>
    ELSE LET m == CHOOSE k \in S : \A o \in S : o = k \/ TupleLess(k, o)
         IN  <<m>> \o SortedKeys(S \ {m})

Range(s) == {s[i] : i \in DOMAIN s}

RECURSIVE SumSeq(_)
SumSeq(s) == IF s = <<>> THEN 0 ELSE Head(s) + SumSeq(Tail(s))

MinOf(S) == CHOOSE m \in S : \A x \in S : m <= x
MaxOf(S) == CHOOSE m \in S : \A x \in S : x <= m

----------------------------------------------------------------------------
(* Batches.  A batch (pandas DataFrame of readings) is its column set and  *)
(* its rows in order; a row is [time, site, device, metric, unit, value].  *)

AllColumns == {"time", "site", "device", "metric", "unit", "value"}
Batch(columns, rows) == [columns |-> columns, rows |-> rows]
\* the frame read from rows when only the given columns are in the source
Frame(columns, rows) ==
    Batch(columns, [i \in DOMAIN rows |-> [c \in columns |-> rows[i][c]]])
EmptyBatch == Batch({}, <<>>)

Ok(data) == [raised |-> "", data |-> data]
Raise(exc) == [raised |-> exc, data |-> EmptyBatch]

----------------------------------------------------------------------------
(* src/filter.py                                                           *)

\* FilterType.__init__: compare_str defaults to "==" when it is None
FilterType(key, value, value_type, compare_str) ==
    [key |-> key, value |-> value, value_type |-> value_type,
     compare_str |-> IF compare_str = "None" THEN "==" ELSE compare_str]

\* one comparison of the query string; order on strings is str order
Compare(a, compare_str, b, value_type) ==
    CASE compare_str = "==" -> a = b
      [] compare_str = "!=" -> a # b
      [] compare_str = "<"  -> IF value_type = "Timestamp" THEN a < b ELSE StrLess(a, b)
      [] compare_str = "<=" -> IF value_type = "Timestamp" THEN a <= b
                               ELSE a = b \/ StrLess(a, b)
      [] compare_str = ">"  -> IF value_type = "Timestamp" THEN a > b ELSE StrLess(b, a)
      [] compare_str = ">=" -> IF value_type = "Timestamp" THEN a >= b
                               ELSE a = b \/ StrLess(b, a)

\* mutant of FilterLoop: a filter whose key is no column is skipped
RECURSIVE FilterLoop_skip(_, _, _, _, _)
FilterLoop_skip(columns, filter_by_, i, filter_conditions, query_locals) ==
    IF i > Len(filter_by_)
    THEN [raised |-> "", filter_conditions |-> filter_conditions,
          query_locals |-> query_locals]
    ELSE LET filter == filter_by_[i] IN
         IF filter.key \notin columns
         THEN FilterLoop_skip(columns, filter_by_, i + 1, filter_conditions, query_locals)
         ELSE FilterLoop_skip(columns, filter_by_, i + 1,
                  Append(filter_conditions,
                         [key |-> filter.key, compare_str |-> filter.compare_str,
                          is_local |-> filter.value_type = "Timestamp",
                          literal |-> IF filter.value_type = "Timestamp" THEN ""
                                      ELSE filter.value,
                          value_type |-> filter.value_type]),
                  IF filter.value_type = "Timestamp"
                  THEN [k \in DOMAIN query_locals \cup {filter.key} |->
                           IF k = filter.key THEN filter.value ELSE query_locals[k]]
                  ELSE query_locals)

\* The loop of filter_data over filter_by[i..]: it raises at the first filter
\* whose key is no column, and otherwise appends one condition per filter.  A
\* Timestamp operand is not written into the query: the condition refers to the
\* local "filter_<key>", and query_locals["filter_<key>"] is assigned the
\* operand, so a later Timestamp filter on the same key replaces the earlier
\* operand.  (isinstance(value, pd.Timestamp) is value_type = "Timestamp": main
\* and the tests construct no filter where the two differ.)
RECURSIVE FilterLoop(_, _, _, _, _)
FilterLoop(columns, filter_by_, i, filter_conditions, query_locals) ==
    IF i > Len(filter_by_)
    THEN [raised |-> "", filter_conditions |-> filter_conditions,
          query_locals |-> query_locals]
    ELSE LET filter == filter_by_[i] IN
         IF filter.key \notin columns
         THEN [raised |-> "ValueError", filter_conditions |-> <<>>,
               query_locals |-> query_locals]
         ELSE IF filter.value_type = "Timestamp"
         THEN FilterLoop(columns, filter_by_, i + 1,
                  Append(filter_conditions,
                         [key |-> filter.key, compare_str |-> filter.compare_str,
                          is_local |-> TRUE, literal |-> "", value_type |-> "Timestamp"]),
                  [k \in DOMAIN query_locals \cup {filter.key} |->
                      IF k = filter.key THEN filter.value ELSE query_locals[k]])
         ELSE FilterLoop(columns, filter_by_, i + 1,
                  Append(filter_conditions,
                         [key |-> filter.key, compare_str |-> filter.compare_str,
                          is_local |-> FALSE, literal |-> filter.value,
                          value_type |-> "str"]),
                  query_locals)

\* data.query(" & ".join(filter_conditions), local_dict=query_locals) on one row
QueryRow(row, filter_conditions, query_locals) ==
    \A n \in DOMAIN filter_conditions :
        LET c == filter_conditions[n] IN
        Compare(row[c.key], c.compare_str,
                IF c.is_local THEN query_locals[c.key] ELSE c.literal,
                c.value_type)

filter_data(data, filter_by_) ==
    IF Len(filter_by_) = 0 THEN Ok(data)
    ELSE LET loop == FilterLoop(data.columns, filter_by_, 1, <<>>, <<>>)
             keep(row) == QueryRow(row, loop.filter_conditions, loop.query_locals)
         IN  IF loop.raised # "" THEN Raise(loop.raised)
             ELSE Ok(Batch(data.columns, SelectSeq(data.rows, keep)))

----------------------------------------------------------------------------
(* src/aggregator.py                                                       *)

\* mutant of METRIC_MAPPING: a target that is itself an abbreviation
METRIC_MAPPING_chained ==
    [x \in {"temp", "hum", "press"} |->
        CASE x = "temp" -> "temperature"
          [] x = "hum" -> "temp"
          [] x = "press" -> "pressure"]

METRIC_MAPPING ==
    [x \in {"temp", "hum", "press"} |->
        CASE x = "temp" -> "temperature"
          [] x = "hum" -> "humidity"
          [] x = "press" -> "pressure"]

\* METRIC_MAPPING.get(x, x)
MappingGet(x) == IF x \in DOMAIN METRIC_MAPPING THEN METRIC_MAPPING[x] ELSE x

\* The returned frame.  (The astype(str) of a categorical column changes the
\* column's encoding, not its values; the model's columns hold plain strings.)
normalize_metric_names(data, metric_col) ==
    IF metric_col \notin data.columns THEN data
    ELSE Batch(data.columns,
               [i \in DOMAIN data.rows |->
                   [data.rows[i] EXCEPT ![metric_col] = MappingGet(@)]])

\* The caller's frame after normalize_metric_names(data, ...): the function
\* rebinds its local name to data.copy() before it assigns the column.
normalize_leaves(data, metric_col) == data

KeyOf(row, group_by) == [i \in 1..Len(group_by) |-> row[group_by[i]]]

GroupValues(rows, group_by, key) ==
    LET in_group(row) == KeyOf(row, group_by) = key
        g == SelectSeq(rows, in_group)
    IN  [i \in DOMAIN g |-> g[i].value]

RECURSIVE SumSqDev(_, _)
SumSqDev(values, mean) ==
    IF values = <<>> THEN RatInt(0)
    ELSE LET d == RatSub(RatInt(Head(values)), mean)
         IN  RatAdd(RatMul(d, d), SumSqDev(Tail(values), mean))

\* mutant of SampleStd: the population deviation (ddof = 0)
SampleStd_ddof0(values) ==
    LET n == Len(values)
        mean == Rat(SumSeq(values), n)
    IN  IF n < 2 THEN NaNStd
        ELSE Sqrt(RatDiv(SumSqDev(values, mean), RatInt(n)))

\* pandas 'std' (ddof = 1): NaN for fewer than two values
SampleStd(values) ==
    LET n == Len(values)
        mean == Rat(SumSeq(values), n)
    IN  IF n < 2 THEN NaNStd
        ELSE Sqrt(RatDiv(SumSqDev(values, mean), RatInt(n - 1)))

\* one row of grouped_data.agg(...).reset_index()
AggRow(rows, group_by, key) ==
    LET values == GroupValues(rows, group_by, key) IN
    [key          |-> key,
     value_count  |-> Len(values),
     value_mean   |-> Rat(SumSeq(values), Len(values)),
     value_min    |-> MinOf(Range(values)),
     value_max    |-> MaxOf(Range(values)),
     value_std    |-> SampleStd(values),
     value_sum_sq |-> SumSeq([i \in DOMAIN values |-> values[i] * values[i]])]

\* aggregate_data returns (grouped_data, agg_data); the model keeps agg_data, a
\* sequence of rows in groupby's order (sort=True: ascending group key).
\* groupby raises KeyError when a group_by column is missing.
aggregate_data(data, group_by) ==
    IF ~(Range(group_by) \subseteq data.columns) THEN Raise("KeyError")
    ELSE LET keys == {KeyOf(data.rows[i], group_by) : i \in DOMAIN data.rows}
             order == SortedKeys(keys)
         IN  Ok([i \in DOMAIN order |-> AggRow(data.rows, group_by, order[i])])

\* The caller's frame after aggregate_data(data, ...): groupby and agg read it.
aggregate_leaves(data, group_by) == data

TableKeys(agg) == {agg[i].key : i \in DOMAIN agg}
Entry(agg, key) == agg[CHOOSE i \in DOMAIN agg : agg[i].key = key]

\* One side of a row of the outer pd.merge: the side's statistics, or NaN in
\* every column when the side has no row with that key.
OuterSide(agg, key) ==
    IF key \in TableKeys(agg)
    THEN LET e == Entry(agg, key) IN
         [isna |-> FALSE, value_count |-> e.value_count, value_mean |-> e.value_mean,
          value_min |-> e.value_min, value_max |-> e.value_max,
          value_sum_sq |-> e.value_sum_sq]
    ELSE [isna |-> TRUE, value_count |-> 0, value_mean |-> RatInt(0),
          value_min |-> 0, value_max |-> 0, value_sum_sq |-> 0]

\* merged[col].fillna(0) over every numeric column of the merge, the _1 and _2
\* columns of value_min and value_max among them
FillNa(side) ==
    IF side.isna
    THEN [isna |-> FALSE, value_count |-> 0, value_mean |-> RatInt(0),
          value_min |-> 0, value_max |-> 0, value_sum_sq |-> 0]
    ELSE side

\* min(axis=1, skipna=True) / max(axis=1, skipna=True) over the two columns
RowMin(s1, s2) ==
    IF s1.isna THEN s2.value_min ELSE IF s2.isna THEN s1.value_min
    ELSE IF s2.value_min < s1.value_min THEN s2.value_min ELSE s1.value_min
RowMax(s1, s2) ==
    IF s1.isna THEN s2.value_max ELSE IF s2.isna THEN s1.value_max
    ELSE IF s2.value_max > s1.value_max THEN s2.value_max ELSE s1.value_max

MergeRow(agg1, agg2, key) ==
    LET s1 == FillNa(OuterSide(agg1, key))
        s2 == FillNa(OuterSide(agg2, key))
        total_count == s1.value_count + s2.value_count
        value_mean ==
            IF total_count = 0 THEN RatInt(0)
            ELSE RatDiv(RatAdd(RatMul(RatInt(s1.value_count), s1.value_mean),
                               RatMul(RatInt(s2.value_count), s2.value_mean)),
                        RatInt(total_count))
        value_sum_sq == s1.value_sum_sq + s2.value_sum_sq
        denom == IF total_count - 1 > 1 THEN total_count - 1 ELSE 1
    IN  [key          |-> key,
         value_count  |-> total_count,
         value_mean   |-> value_mean,
         value_min    |-> RowMin(s1, s2),
         value_max    |-> RowMax(s1, s2),
         value_std    |-> Sqrt(RatDiv(RatSub(RatInt(value_sum_sq),
                                             RatMul(RatInt(total_count),
                                                    RatMul(value_mean, value_mean))),
                                      RatInt(denom))),
         value_sum_sq |-> value_sum_sq]

\* mutant of merge_aggregates: the two tables stacked (pd.concat) instead of
\* joined on the group keys
merge_aggregates_concat(agg1, agg2, group_by) == agg1 \o agg2

\* pd.merge(how='outer') has one row per key of either table, keys ascending.
\* (The in-place astype(str) of categorical key columns of agg1 and agg2
\* changes their encoding only.)
merge_aggregates(agg1, agg2, group_by) ==
    LET order == SortedKeys(TableKeys(agg1) \cup TableKeys(agg2))
    IN  [i \in DOMAIN order |-> MergeRow(agg1, agg2, order[i])]

----------------------------------------------------------------------------
(* main.py                                                                 *)

GroupBy == <<"site", "device", "metric">>
OutlierSigmas == 3
TopN == 10

NoAggregate == [is_none |-> TRUE, rows |-> <<>>]
Aggregate(rows) == [is_none |-> FALSE, rows |-> rows]

\* main's filter_by from the parsed arguments; an option not given (None or
\* empty) is "" for the names and 0 for the two times.
BuildFilters(args) ==
    (IF args.site # "" THEN <<FilterType("site", args.site, "str", "None")>> ELSE <<>>)
    \o (IF args.device # "" THEN <<FilterType("device", args.device, "str", "None")>>
        ELSE <<>>)
    \o (IF args.metric # "" THEN <<FilterType("metric", args.metric, "str", "None")>>
        ELSE <<>>)
    \o (IF args.time_start # 0
        THEN <<FilterType("time", args.time_start, "Timestamp", ">=")>> ELSE <<>>)
    \o (IF args.time_end # 0
        THEN <<FilterType("time", args.time_end, "Timestamp", "<=")>> ELSE <<>>)

\* chunk_reader: pd.read_csv(chunksize=chunk_size) yields the rows chunk_size at
\* a time; a csv with a header and no rows yields one empty chunk.
NumChunks(n, chunk_size) ==
    IF n = 0 THEN 1 ELSE (n + chunk_size - 1) \div chunk_size

Chunk(data, chunk_size, i) ==
    LET lo == (i - 1) * chunk_size + 1
        hi == IF i * chunk_size < Len(data.rows) THEN i * chunk_size ELSE Len(data.rows)
    IN  Batch(data.columns, SubSeq(data.rows, lo, hi))

\* mutant of FirstPassBody: the chunk's aggregate replaces the running one
FirstPassBody_overwrite(agg, chunk, filter_by_) ==
    LET filtered_chunk == filter_data(chunk, filter_by_) IN
    IF filtered_chunk.raised # "" THEN [raised |-> filtered_chunk.raised, agg |-> agg]
    ELSE IF Len(filtered_chunk.data.rows) = 0 THEN [raised |-> "", agg |-> agg]
    ELSE LET normalized == normalize_metric_names(filtered_chunk.data, "metric")
             agg_chunk == aggregate_data(normalized, GroupBy)
         IN  IF agg_chunk.raised # "" THEN [raised |-> agg_chunk.raised, agg |-> agg]
             ELSE [raised |-> "", agg |-> Aggregate(agg_chunk.data)]

\* The body of the first loop for one chunk: the running agg_data after it, or
\* the exception that leaves it.
FirstPassBody(agg, chunk, filter_by_) ==
    LET filtered_chunk == filter_data(chunk, filter_by_) IN
    IF filtered_chunk.raised # "" THEN [raised |-> filtered_chunk.raised, agg |-> agg]
    ELSE IF Len(filtered_chunk.data.rows) = 0 THEN [raised |-> "", agg |-> agg]
    ELSE LET normalized == normalize_metric_names(filtered_chunk.data, "metric")
             agg_chunk == aggregate_data(normalized, GroupBy)
         IN  IF agg_chunk.raised # "" THEN [raised |-> agg_chunk.raised, agg |-> agg]
             ELSE IF agg.is_none THEN [raised |-> "", agg |-> Aggregate(agg_chunk.data)]
             ELSE [raised |-> "",
                   agg |-> Aggregate(merge_aggregates(agg.rows, agg_chunk.data, GroupBy))]

\* mutant of sort_values: ascending=False
RECURSIVE sort_values_descending(_)
sort_values_descending(rows) ==
    IF rows = <<>> THEN <<>>
    ELSE LET m == CHOOSE i \in DOMAIN rows :
                    /\ \A j \in DOMAIN rows : ~TupleLess(rows[i].key, rows[j].key)
                    /\ \A j \in 1..(i - 1) : rows[j].key # rows[i].key
         IN  <<rows[m]>> \o sort_values_descending(SubSeq(rows, 1, m - 1)
                                        \o SubSeq(rows, m + 1, Len(rows)))

\* agg_data.sort_values(by=["site", "device", "metric"]): rows by ascending key,
\* rows of equal key in their given order
RECURSIVE sort_values(_)
sort_values(rows) ==
    IF rows = <<>> THEN <<>>
    ELSE LET m == CHOOSE i \in DOMAIN rows :
                    /\ \A j \in DOMAIN rows : ~TupleLess(rows[j].key, rows[i].key)
                    /\ \A j \in 1..(i - 1) : rows[j].key # rows[i].key
         IN  <<rows[m]>> \o sort_values(SubSeq(rows, 1, m - 1)
                                        \o SubSeq(rows, m + 1, Len(rows)))

\* Line 91, after the first loop: None has no sort_values.
SortFinal(agg) ==
    IF agg.is_none THEN [raised |-> "AttributeError", agg |-> agg]
    ELSE [raised |-> "", agg |-> Aggregate(sort_values(agg.rows))]

\* The first loop from chunk i on, then line 91.
RECURSIVE FirstPassFrom(_, _, _, _, _)
FirstPassFrom(data, filter_by_, chunk_size, i, agg) ==
    IF i > NumChunks(Len(data.rows), chunk_size) THEN SortFinal(agg)
    ELSE LET step == FirstPassBody(agg, Chunk(data, chunk_size, i), filter_by_)
         IN  IF step.raised # "" THEN step
             ELSE FirstPassFrom(data, filter_by_, chunk_size, i + 1, step.agg)

\* sort_values(by=col, ascending=False).head(10), as the set of its rows: the
\* rows with fewer than ten rows before them (NaN sorts last).
MeanBefore(a, b) == RatLess(b.value_mean, a.value_mean)
StdBefore(a, b) ==
    \/ ~a.value_std.nan /\ b.value_std.nan
    \/ ~a.value_std.nan /\ ~b.value_std.nan /\ RatLess(b.value_std.sq, a.value_std.sq)
Top10Avg(rows) ==
    {r \in Range(rows) : Cardinality({o \in Range(rows) : MeanBefore(o, r)}) < TopN}
Top10Std(rows) ==
    {r \in Range(rows) : Cardinality({o \in Range(rows) : StdBefore(o, r)}) < TopN}

\* mutant of OutlierMask: >= in place of >
OutlierMask_ge(value, value_mean, value_std) ==
    LET d == RatSub(RatInt(value), value_mean) IN
    /\ ~value_std.nan
    /\ ~RatLess(RatMul(d, d), RatMul(RatInt(OutlierSigmas * OutlierSigmas), value_std.sq))

\* abs(value - value_mean) > 3 * value_std; a comparison with NaN is False
OutlierMask(value, value_mean, value_std) ==
    LET d == RatSub(RatInt(value), value_mean) IN
    /\ ~value_std.nan
    /\ RatLess(RatMul(RatInt(OutlierSigmas * OutlierSigmas), value_std.sq), RatMul(d, d))

\* The body of the second loop for one chunk: the rows to append to
\* outliers_list (none when the chunk has no outlier), or the exception.
SecondPassBody(agg, chunk, filter_by_) ==
    LET filtered_chunk == filter_data(chunk, filter_by_) IN
    IF filtered_chunk.raised # "" THEN [raised |-> filtered_chunk.raised, rows |-> <<>>]
    ELSE IF Len(filtered_chunk.data.rows) = 0 THEN [raised |-> "", rows |-> <<>>]
    ELSE LET normalized == normalize_metric_names(filtered_chunk.data, "metric")
             joined(row) == KeyOf(row, GroupBy) \in TableKeys(agg.rows)
             merged == SelectSeq(normalized.rows, joined)
             mask(row) == LET e == Entry(agg.rows, KeyOf(row, GroupBy))
                          IN  OutlierMask(row.value, e.value_mean, e.value_std)
             outlier_chunk == SelectSeq(merged, mask)
         IN  IF ~(Range(GroupBy) \subseteq normalized.columns)
             THEN [raised |-> "KeyError", rows |-> <<>>]
             ELSE IF Len(outlier_chunk) > 0 /\ "unit" \notin normalized.columns
             THEN [raised |-> "KeyError", rows |-> <<>>]
             ELSE [raised |-> "", rows |-> outlier_chunk]

RECURSIVE Concat(_)
Concat(list) == IF list = <<>> THEN <<>> ELSE Head(list) \o Concat(Tail(list))

----------------------------------------------------------------------------
(* Inputs.                                                                 *)

MaxBatchRows == 3     \* rows of a batch handed to aggregate_data or normalize_metric_names
MaxFilterRows == 2    \* rows of a batch handed to filter_data (besides TenDays)
MaxMergedRows == 4    \* raw rows behind a table built by successive merges
MaxFileRows == 3      \* rows of a csv built from FileRowSet
MaxChunkSize == 2     \* --chunk_size ranges over 1..MaxChunkSize

SeqsUpTo(S, n) == UNION {[1..k -> S] : k \in 0..n}

Row(time, site, device, metric, value) ==
    [time |-> time, site |-> site, device |-> device, metric |-> metric,
     unit |-> "u", value |-> value]

\* batches for aggregate_data and merge_aggregates: two groups, both signs
AggRowSet == {Row(1, "s1", d, "temp", v) : d \in {"d1", "d2"}, v \in {-1, 2}}
AggBatches ==
    {Batch(AllColumns, r) : r \in SeqsUpTo(AggRowSet, MaxBatchRows) \ {<<>>}}
\* the batches of AggBatches with at most k rows
AggBatchesUpTo ==
    [k \in 0..MaxMergedRows |-> {b \in AggBatches : Len(b.rows) <= k}]

\* batches and filter lists for filter_data; TenDays is 2025-01-01 .. 2025-01-10
FilterRowSet == {Row(t, s, "d1", "temp", 2) : t \in 1..3, s \in {"s1", "s2"}}
TenDays == [t \in 1..10 |-> Row(t, "s1", "d1", "temp", 2)]
FilterBatches ==
    {Frame(c, r) : c \in {AllColumns, AllColumns \ {"site"}},
                   r \in SeqsUpTo(FilterRowSet, MaxFilterRows) \cup {TenDays}}
FilterSet ==
    {FilterType("time", t, "Timestamp", o) : t \in {2, 3, 7}, o \in {">=", "<=", "<"}}
    \cup {FilterType("site", "s1", "str", o) : o \in {"None", "!="}}
FilterLists == SeqsUpTo(FilterSet, 2)

\* batches for normalize_metric_names: mapped, canonical and unmapped names
NormRowSet ==
    {Row(1, "s1", "d1", m, 2) :
        m \in {"temp", "temperature", "hum", "humidity", "press", "pressure", "wind"}}
NormBatches ==
    {Frame(c, r) : c \in {AllColumns, AllColumns \ {"metric"}},
                   r \in SeqsUpTo(NormRowSet, MaxBatchRows)}

\* csv files for main: every short file over FileRowSet, and two files with one
\* group of zeros followed by a single 100
FileRowSet ==
    {Row(1, "s1", "d1", "temp", 2), Row(2, "s1", "d1", "temperature", 4),
     Row(3, "s2", "d1", "temp", -3), Row(2, "s1", "d2", "hum", 1)}
SpikeFile(zeros) ==
    [i \in 1..(zeros + 1) |->
        Row(1, "s1", "d1", "temp", IF i <= zeros THEN 0 ELSE 100)]
Files ==
    {Frame(c, r) : c \in {AllColumns, AllColumns \ {"device"}},
                   r \in SeqsUpTo(FileRowSet, MaxFileRows)
                         \cup {SpikeFile(4), SpikeFile(10)}}

Args(site, device, metric, time_start, time_end) ==
    [site |-> site, device |-> device, metric |-> metric,
     time_start |-> time_start, time_end |-> time_end]
ArgSets ==
    {Args("", "", "", 0, 0), Args("", "d1", "", 0, 0), Args("s1", "d1", "", 0, 0),
     Args("", "", "temperature", 0, 0), Args("", "", "", 2, 3),
     Args("", "", "", 0, 2)}

----------------------------------------------------------------------------
(* State machine.                                                          *)

NothingWritten ==
    [files |-> {}, aggregated |-> <<>>, top10_avg |-> {}, top10_std |-> {},
     outliers |-> <<>>]

Init ==
    /\ lib_op = "none"
    /\ lib_args = <<>>
    /\ lib_ret = <<>>
    /\ lib_rows = <<>>
    /\ pc = "idle"
    /\ cli = [input |-> EmptyBatch, chunk_size |-> 1, args |-> Args("", "", "", 0, 0)]
    /\ filter_by = <<>>
    /\ chunk_num = 0
    /\ agg_data = NoAggregate
    /\ outliers_list = <<>>
    /\ written = NothingWritten
    /\ error = ""

\* a direct call filter_data(data, filter_by)
CallFilterData ==
    /\ pc = "idle"
    /\ lib_op = "none"
    /\ \E data \in FilterBatches, f \in FilterLists :
        /\ lib_op' = "filter_data"
        /\ lib_args' = [data |-> data, filter_by |-> f]
        /\ lib_ret' = filter_data(data, f)
        /\ lib_rows' = <<>>
        /\ UNCHANGED main_vars

\* a direct call normalize_metric_names(data)
CallNormalize ==
    /\ pc = "idle"
    /\ lib_op = "none"
    /\ \E data \in NormBatches :
        /\ lib_op' = "normalize_metric_names"
        /\ lib_args' = [given |-> data, data |-> normalize_leaves(data, "metric")]
        /\ lib_ret' = normalize_metric_names(data, "metric")
        /\ lib_rows' = <<>>
        /\ UNCHANGED main_vars

\* a direct call aggregate_data(data, group_by)
CallAggregate ==
    /\ pc = "idle"
    /\ lib_op = "none"
    /\ \E data \in AggBatches :
        /\ lib_op' = "aggregate_data"
        /\ lib_args' = [given |-> data, data |-> aggregate_leaves(data, GroupBy)]
        /\ lib_ret' = aggregate_data(data, GroupBy).data
        /\ lib_rows' = data.rows
        /\ UNCHANGED main_vars

\* merge_aggregates of the table in hand with the aggregate of a new batch, the
\* table in hand as either argument
CallMerge ==
    /\ pc = "idle"
    /\ lib_op \in {"aggregate_data", "merge_aggregates"}
    /\ Len(lib_rows) < MaxMergedRows
    /\ \E data \in AggBatchesUpTo[MaxMergedRows - Len(lib_rows)],
          in_hand_first \in BOOLEAN :
        /\ LET agg_new == aggregate_data(data, GroupBy).data
               agg1 == IF in_hand_first THEN lib_ret ELSE agg_new
               agg2 == IF in_hand_first THEN agg_new ELSE lib_ret
           IN  /\ lib_args' = [agg1 |-> agg1, agg2 |-> agg2]
               /\ lib_ret' = merge_aggregates(agg1, agg2, GroupBy)
        /\ lib_op' = "merge_aggregates"
        /\ lib_rows' = lib_rows \o data.rows
        /\ UNCHANGED main_vars

\* merge_aggregates of the table in hand with the merge of two new aggregates
CallMergeOfMerge ==
    /\ pc = "idle"
    /\ lib_op \in {"aggregate_data", "merge_aggregates"}
    /\ Len(lib_rows) + 1 < MaxMergedRows
    /\ \E d1 \in AggBatchesUpTo[MaxMergedRows - Len(lib_rows) - 1] :
       \E d2 \in AggBatchesUpTo[MaxMergedRows - Len(lib_rows) - Len(d1.rows)] :
        /\ LET agg2 == merge_aggregates(aggregate_data(d1, GroupBy).data,
                                        aggregate_data(d2, GroupBy).data, GroupBy)
           IN  /\ lib_args' = [agg1 |-> lib_ret, agg2 |-> agg2]
               /\ lib_ret' = merge_aggregates(lib_ret, agg2, GroupBy)
        /\ lib_op' = "merge_aggregates"
        /\ lib_rows' = lib_rows \o d1.rows \o d2.rows
        /\ UNCHANGED main_vars

\* main() up to the first loop: parse the arguments, build filter_by, open the csv
MainStart ==
    /\ pc = "idle"
    /\ lib_op = "none"
    /\ \E input \in Files, chunk_size \in 1..MaxChunkSize, args \in ArgSets :
        /\ cli' = [input |-> input, chunk_size |-> chunk_size, args |-> args]
        /\ filter_by' = BuildFilters(args)
        /\ agg_data' = NoAggregate
        /\ chunk_num' = 0
        /\ pc' = "first_pass"
        /\ UNCHANGED <<outliers_list, written, error>>
        /\ UNCHANGED lib_vars

\* one iteration of the first loop
FirstPassChunk ==
    /\ pc = "first_pass"
    /\ chunk_num < NumChunks(Len(cli.input.rows), cli.chunk_size)
    /\ LET step == FirstPassBody(agg_data,
                                 Chunk(cli.input, cli.chunk_size, chunk_num + 1),
                                 filter_by)
       IN  /\ agg_data' = step.agg
           /\ error' = step.raised
           /\ pc' = IF step.raised # "" THEN "raised" ELSE "first_pass"
    /\ chunk_num' = chunk_num + 1
    /\ UNCHANGED <<cli, filter_by, outliers_list, written>>
    /\ UNCHANGED lib_vars

\* lines 91-106: sort, the "No data to save" return, the three aggregate files
FirstPassEnd ==
    /\ pc = "first_pass"
    /\ chunk_num = NumChunks(Len(cli.input.rows), cli.chunk_size)
    /\ LET sorted == SortFinal(agg_data) IN
       IF sorted.raised # ""
       THEN /\ pc' = "raised"
            /\ error' = sorted.raised
            /\ UNCHANGED <<agg_data, written, chunk_num>>
       ELSE IF Len(sorted.agg.rows) = 0
       THEN /\ pc' = "no_data"
            /\ agg_data' = sorted.agg
            /\ UNCHANGED <<error, written, chunk_num>>
       ELSE /\ pc' = "second_pass"
            /\ agg_data' = sorted.agg
            /\ written' = [written EXCEPT
                   !.files = {"aggregated", "top10_avg", "top10_std"},
                   !.aggregated = sorted.agg.rows,
                   !.top10_avg = Top10Avg(sorted.agg.rows),
                   !.top10_std = Top10Std(sorted.agg.rows)]
            /\ chunk_num' = 0
            /\ UNCHANGED error
    /\ UNCHANGED <<cli, filter_by, outliers_list>>
    /\ UNCHANGED lib_vars

\* one iteration of the second loop
SecondPassChunk ==
    /\ pc = "second_pass"
    /\ chunk_num < NumChunks(Len(cli.input.rows), cli.chunk_size)
    /\ LET step == SecondPassBody(agg_data,
                                  Chunk(cli.input, cli.chunk_size, chunk_num + 1),
                                  filter_by)
       IN  /\ outliers_list' = IF Len(step.rows) > 0
                               THEN Append(outliers_list, step.rows)
                               ELSE outliers_list
           /\ error' = step.raised
           /\ pc' = IF step.raised # "" THEN "raised" ELSE "second_pass"
    /\ chunk_num' = chunk_num + 1
    /\ UNCHANGED <<cli, filter_by, agg_data, written>>
    /\ UNCHANGED lib_vars

\* lines 122-127: write the outliers file when there are any
SecondPassEnd ==
    /\ pc = "second_pass"
    /\ chunk_num = NumChunks(Len(cli.input.rows), cli.chunk_size)
    /\ written' = IF Len(outliers_list) > 0
                  THEN [written EXCEPT !.files = @ \cup {"outliers"},
                                       !.outliers = Concat(outliers_list)]
                  ELSE written
    /\ pc' = "done"
    /\ UNCHANGED <<cli, filter_by, chunk_num, agg_data, outliers_list, error>>
    /\ UNCHANGED lib_vars

Next ==
    \/ CallFilterData
    \/ CallNormalize
    \/ CallAggregate
    \/ CallMerge
    \/ CallMergeOfMerge
    \/ MainStart
    \/ FirstPassChunk
    \/ FirstPassEnd
    \/ SecondPassChunk
    \/ SecondPassEnd

Spec == Init /\ [][Next]_vars

----------------------------------------------------------------------------
(* Properties.                                                             *)

RECURSIVE SetSum(_, _)
SetSum(I, f) ==
    IF I = {} THEN 0
    ELSE LET i == CHOOSE x \in I : TRUE IN f[i] + SetSum(I \ {i}, f)

GroupKey(row) == <<row.site, row.device, row.metric>>
ZeroStd == [nan |-> FALSE, sq |-> RatInt(0)]

\* C3: aggregate_data returns exactly one row per group key occurring in its
\* input and none for any other key; for each group value_count is the number of
\* its rows, value_mean their arithmetic mean, value_min and value_max their
\* extrema, value_sum_sq the sum of their squares and, for a group of two or
\* more rows, value_std their sample standard deviation (ddof = 1:
\* std^2 * n * (n - 1) = n * sum_sq - sum^2); the input frame is left as given.
AggregateDataStatistics ==
    lib_op = "aggregate_data" =>
        LET rows == lib_args.given.rows
            vals == [i \in DOMAIN rows |-> rows[i].value]
            sqs == [i \in DOMAIN rows |-> rows[i].value * rows[i].value]
            Members(key) == {i \in DOMAIN rows : GroupKey(rows[i]) = key}
        IN  /\ lib_args.data = lib_args.given
            /\ {lib_ret[j].key : j \in DOMAIN lib_ret}
                   = {GroupKey(rows[i]) : i \in DOMAIN rows}
            /\ \A j, k \in DOMAIN lib_ret : lib_ret[j].key = lib_ret[k].key => j = k
            /\ \A j \in DOMAIN lib_ret :
                   LET e == lib_ret[j]
                       I == Members(e.key)
                       n == Cardinality(I)
                       S == SetSum(I, vals)
                       Q == SetSum(I, sqs)
                   IN  /\ n > 0
                       /\ e.value_count = n
                       /\ e.value_mean.num * n = S * e.value_mean.den
                       /\ e.value_min \in {vals[i] : i \in I}
                       /\ \A i \in I : e.value_min <= vals[i]
                       /\ e.value_max \in {vals[i] : i \in I}
                       /\ \A i \in I : vals[i] <= e.value_max
                       /\ e.value_sum_sq = Q
                       /\ n >= 2 => /\ ~e.value_std.nan
                                    /\ e.value_std.sq.num * n * (n - 1)
                                           = (n * Q - S * S) * e.value_std.sq.den

\* C3 witness: an aggregate of two groups, one of them with two different values
AggregateDataWitness ==
    /\ lib_op = "aggregate_data"
    /\ Len(lib_ret) = 2
    /\ \E j \in DOMAIN lib_ret :
           /\ lib_ret[j].value_count = 2
           /\ lib_ret[j].value_min < lib_ret[j].value_max

\* C10: normalize_metric_names is idempotent and passes unmapped names through:
\* each returned name is a fixed point of the mapping, a name that is no key of
\* METRIC_MAPPING is returned as given, normalizing the returned batch again
\* returns it unchanged, no other column or row changes, and the caller's batch
\* is left as given.
NormalizeIdempotent ==
    lib_op = "normalize_metric_names" =>
        LET given == lib_args.given
            ret == lib_ret
        IN  /\ lib_args.data = given
            /\ normalize_metric_names(ret, "metric") = ret
            /\ ret.columns = given.columns
            /\ DOMAIN ret.rows = DOMAIN given.rows
            /\ "metric" \notin given.columns => ret = given
            /\ "metric" \in given.columns => \A i \in DOMAIN given.rows :
                   LET x == given.rows[i].metric
                       y == ret.rows[i].metric
                   IN  /\ MappingGet(y) = y
                       /\ x \notin {"temp", "hum", "press"} => y = x
                       /\ [ret.rows[i] EXCEPT !.metric = x] = given.rows[i]

\* C10 witness: a batch in which one name was rewritten and an unmapped one kept
NormalizeWitness ==
    /\ lib_op = "normalize_metric_names"
    /\ "metric" \in lib_ret.columns
    /\ \E i \in DOMAIN lib_ret.rows : lib_ret.rows[i].metric # lib_args.given.rows[i].metric
    /\ \E i \in DOMAIN lib_ret.rows :
           lib_args.given.rows[i].metric = "wind" /\ lib_ret.rows[i].metric = "wind"

\* C9: a filter whose key is no column of the batch is fatal.  filter_data
\* raises ValueError and returns no rows, wherever the filter stands in a
\* non-empty list; in main the error ends the run at the first chunk, with no
\* aggregate, no file written and no outlier collected.
UnknownFilterColumnFatal ==
    /\ (/\ lib_op = "filter_data"
        /\ \E i \in DOMAIN lib_args.filter_by :
               lib_args.filter_by[i].key \notin lib_args.data.columns)
       => /\ lib_ret.raised = "ValueError"
          /\ lib_ret.data.rows = <<>>
    /\ (/\ pc # "idle"
        /\ chunk_num >= 1
        /\ \E i \in DOMAIN filter_by : filter_by[i].key \notin cli.input.columns)
       => /\ pc = "raised"
          /\ error = "ValueError"
          /\ chunk_num = 1
          /\ agg_data.is_none
          /\ written = NothingWritten
          /\ outliers_list = <<>>

\* C9 witness: a run over a non-empty csv ended by the second filter of two
UnknownFilterColumnWitness ==
    /\ pc = "raised"
    /\ error = "ValueError"
    /\ Len(cli.input.rows) > 0
    /\ Len(filter_by) = 2
    /\ filter_by[1].key \in cli.input.columns
    /\ filter_by[2].key \notin cli.input.columns

\* the filtered, normalized rows of chunk c of the run's csv
Survivors(c) ==
    normalize_metric_names(
        filter_data(Chunk(cli.input, cli.chunk_size, c), filter_by).data, "metric").rows

\* |value - mean| > 3 * std for the row's group in agg_data, in integers:
\* with mean = a/b and std^2 = p/q, (value * b - a)^2 * q > 9 * p * b^2
BeyondThreeSigma(row) ==
    \E j \in DOMAIN agg_data.rows :
        LET e == agg_data.rows[j]
            a == e.value_mean.num
            b == e.value_mean.den
            p == e.value_std.sq.num
            q == e.value_std.sq.den
        IN  /\ e.key = GroupKey(row)
            /\ ~e.value_std.nan
            /\ (row.value * b - a) * (row.value * b - a) * q > 9 * p * b * b

\* C8: in the second pass a filtered, normalized row is emitted as an outlier
\* iff its group has a row in the final aggregate and |value - mean| > 3 * std
\* (strict; an undefined std compares false) for that group; the emitted rows
\* keep their order, no error arises, the outliers file holds exactly the
\* emitted rows, and a group whose values are [0, 0, 0, 0, 100] emits none.
OutlierEmissionRule ==
    pc \in {"second_pass", "done"} =>
        LET Expected(c) == SelectSeq(Survivors(c), BeyondThreeSigma)
            emitted == Concat(outliers_list)
        IN  /\ error = ""
            /\ emitted = Concat([c \in 1..chunk_num |-> Expected(c)])
            /\ \A n \in DOMAIN outliers_list : outliers_list[n] # <<>>
            /\ pc = "done" => /\ written.outliers = emitted
                              /\ "outliers" \in written.files <=> emitted # <<>>
            /\ \A j \in DOMAIN agg_data.rows :
                   LET e == agg_data.rows[j] IN
                   (/\ e.value_count = 5
                    /\ e.value_min = 0
                    /\ e.value_max = 100
                    /\ e.value_sum_sq = 10000)
                   => \A n \in DOMAIN emitted : GroupKey(emitted[n]) # e.key

\* C8 witness: a finished run that emitted some rows of a group and not others
OutlierEmissionWitness ==
    /\ pc = "done"
    /\ \E n \in DOMAIN written.outliers, c \in 1..chunk_num :
           \E m \in DOMAIN Survivors(c) :
               /\ GroupKey(Survivors(c)[m]) = GroupKey(written.outliers[n])
               /\ ~BeyondThreeSigma(Survivors(c)[m])

\* a finished run over a group whose values are [0, 0, 0, 0, 100]
FourZerosAndAHundred ==
    /\ pc = "done"
    /\ \E j \in DOMAIN agg_data.rows :
           /\ agg_data.rows[j].value_count = 5
           /\ agg_data.rows[j].value_max = 100
           /\ agg_data.rows[j].value_sum_sq = 10000

\* C1: chunk-invariance.  The final aggregate of a run, sorted by group key, is
\* the final aggregate of the run over the same csv and filters with any other
\* chunk size, the single-chunk run included: the same keys, counts, means,
\* minima, maxima and standard deviations.
ChunkInvariance ==
    pc \in {"second_pass", "done"} =>
        \A other \in (1..MaxChunkSize) \cup {Len(cli.input.rows)} :
            LET run == FirstPassFrom(cli.input, filter_by, other, 1, NoAggregate)
                Stats(e) == <<e.key, e.value_count, e.value_mean, e.value_min,
                              e.value_max, e.value_std>>
            IN  /\ run.raised = ""
                /\ [j \in DOMAIN run.agg.rows |-> Stats(run.agg.rows[j])]
                       = [j \in DOMAIN agg_data.rows |-> Stats(agg_data.rows[j])]

\* C2: a table built by merge_aggregates from the aggregates of several
\* batches, merged in any order and nesting, is aggregate_data of all their
\* rows together, in every group and every statistic.
MergeAgreesWithAggregate ==
    lib_op = "merge_aggregates" =>
        lib_ret = aggregate_data(Batch(AllColumns, lib_rows), GroupBy).data

\* the rows i of the batch that satisfy every filter of the list, each with
\* its own operand
SatisfiesAll(row, filters) ==
    \A n \in DOMAIN filters :
        Compare(row[filters[n].key], filters[n].compare_str, filters[n].value,
                filters[n].value_type)

\* C4: filter_data returns exactly the rows that satisfy every condition of
\* the list, in their order; with time >= lo and time <= hi those are the rows
\* with lo <= time <= hi (days 3..7 of TenDays: five rows).
FilterReturnsConjunction ==
    (lib_op = "filter_data" /\ lib_ret.raised = "") =>
        LET keep(row) == SatisfiesAll(row, lib_args.filter_by)
        IN  lib_ret.data.rows = SelectSeq(lib_args.data.rows, keep)

\* C5: a group present in exactly one argument of merge_aggregates is in the
\* result with the count, mean, minimum, maximum, sum of squares and standard
\* deviation it has in that argument.
MergePassThrough ==
    lib_op = "merge_aggregates" =>
        \A key \in TableKeys(lib_ret) :
            /\ (key \in TableKeys(lib_args.agg1) /\ key \notin TableKeys(lib_args.agg2))
               => Entry(lib_ret, key) = Entry(lib_args.agg1, key)
            /\ (key \in TableKeys(lib_args.agg2) /\ key \notin TableKeys(lib_args.agg1))
               => Entry(lib_ret, key) = Entry(lib_args.agg2, key)

\* C6: a run in which no chunk has a row left after filtering ends without an
\* exception in the "no data" state, with an empty aggregate and no outlier.
EmptyInputIsNoData ==
    (/\ pc \in {"raised", "no_data", "second_pass", "done"}
     /\ \A c \in 1..NumChunks(Len(cli.input.rows), cli.chunk_size) :
            LET f == filter_data(Chunk(cli.input, cli.chunk_size, c), filter_by)
            IN  f.raised = "" /\ f.data.rows = <<>>)
    => /\ pc = "no_data"
       /\ error = ""
       /\ outliers_list = <<>>

\* C7: in the final aggregate every group with value_count = 1 has
\* value_std = 0, whether or not the group went through merge_aggregates.
SingleRowStdIsZero ==
    pc \in {"second_pass", "done"} =>
        \A j \in DOMAIN agg_data.rows :
            agg_data.rows[j].value_count = 1 => agg_data.rows[j].value_std = ZeroStd

\* the filtered, normalized rows of the chunks consumed so far, in file order
SeenSoFar == Concat([c \in 1..chunk_num |-> Survivors(c)])

\* whether chunk c of the run's csv has no row left after filtering
FiltersToNothing(c) ==
    LET f == filter_data(Chunk(cli.input, cli.chunk_size, c), filter_by)
    IN  f.raised = "" /\ f.data.rows = <<>>

\* the sums of the running aggregate during the first loop
RunningSums ==
    pc = "first_pass" =>
        LET seen == SeenSoFar
            vals == [i \in DOMAIN seen |-> seen[i].value]
            sqs == [i \in DOMAIN seen |-> seen[i].value * seen[i].value]
        IN  \A j \in DOMAIN agg_data.rows :
                LET e == agg_data.rows[j]
                    I == {i \in DOMAIN seen : GroupKey(seen[i]) = e.key}
                IN  /\ e.value_count = Cardinality(I)
                    /\ e.value_sum_sq = SetSum(I, sqs)
                    /\ e.value_mean.num * e.value_count
                           = SetSum(I, vals) * e.value_mean.den

\* C11: during the first loop, after any number of chunks, every group of the
\* running aggregate has value_count = the number of filtered, normalized rows
\* of that group in the chunks consumed so far, value_sum_sq = the sum of their
\* squares and value_count * value_mean = their sum; and a chunk with no row
\* left after filtering leaves the running aggregate as it was.
RunningAggregateInvariant ==
    /\ []RunningSums
    /\ [][(pc = "first_pass" /\ chunk_num' = chunk_num + 1
           /\ FiltersToNothing(chunk_num + 1))
          => (agg_data' = agg_data /\ pc' = "first_pass")]_vars

\* C11 witness: three chunks consumed, one of them filtered to nothing, and a
\* group that has taken rows from two chunks
RunningAggregateWitness ==
    /\ pc = "first_pass"
    /\ chunk_num = 3
    /\ cli.chunk_size = 1
    /\ \E c \in 1..chunk_num : FiltersToNothing(c)
    /\ \E j \in DOMAIN agg_data.rows : agg_data.rows[j].value_count = 2

\* the csv of the run with its chunks of chunk_size rows read in another order
ChunksOf(data, chunk_size) ==
    [c \in 1..NumChunks(Len(data.rows), chunk_size) |-> Chunk(data, chunk_size, c).rows]
Reversed(list) == [i \in DOMAIN list |-> list[Len(list) + 1 - i]]
Rotated(list) == IF list = <<>> THEN <<>> ELSE Tail(list) \o <<Head(list)>>
ChunkOrders(data, chunk_size) ==
    LET chunks == ChunksOf(data, chunk_size)
    IN  {Frame(data.columns, Concat(order)) :
            order \in {Reversed(chunks), Rotated(chunks), Rotated(Rotated(chunks)),
                       Reversed(Rotated(chunks))}}

\* the group keys of a table, in the order of its rows
KeyOrder(rows) == [i \in DOMAIN rows |-> rows[i].key]

\* C12: once the first loop has completed with at least one group, the final
\* aggregate (written to aggregated.csv and joined in the second loop) has its
\* rows in strictly ascending (site, device, metric) order, and a run over the
\* same rows with any other chunk size or with the chunks in another order ends
\* with the same sequence of keys.
DeterministicOutputOrder ==
    (pc \in {"second_pass", "done"} /\ agg_data.rows # <<>>) =>
        /\ \A i \in 1..(Len(agg_data.rows) - 1) :
               TupleLess(agg_data.rows[i].key, agg_data.rows[i + 1].key)
        /\ written.aggregated = agg_data.rows
        /\ \A chunk_size \in 1..(MaxChunkSize + 1) :
               \A data \in {cli.input} \cup ChunkOrders(cli.input, chunk_size) :
                   LET other == FirstPassFrom(data, filter_by, chunk_size, 1, NoAggregate)
                   IN  /\ other.raised = ""
                       /\ KeyOrder(other.agg.rows) = KeyOrder(agg_data.rows)

\* C12 witness: a finished run over several chunks whose csv meets a larger
\* key before a smaller one and ends with both groups
DeterministicOutputWitness ==
    /\ pc = "done"
    /\ NumChunks(Len(cli.input.rows), cli.chunk_size) >= 2
    /\ Len(agg_data.rows) >= 2
    /\ \E i, j \in DOMAIN cli.input.rows :
           LET NormKey(r) == <<r.site, r.device, MappingGet(r.metric)>>
               first == NormKey(cli.input.rows[i])
               later == NormKey(cli.input.rows[j])
           IN  /\ i < j
               /\ {first, later} \subseteq TableKeys(agg_data.rows)
               /\ TupleLess(later, first)

\* whether no two rows of a table carry the same group key
UniqueKeys(rows) ==
    \A i, j \in DOMAIN rows : rows[i].key = rows[j].key => i = j

\* C13: during the first loop the running aggregate holds each group key at
\* most once and its keys are exactly the (site, device, metric) tuples of the
\* filtered, normalized rows consumed so far; merge_aggregates of two tables
\* with unique keys returns a table with unique keys whose key set is the union
\* of theirs; and in the second loop every filtered row finds at most one entry
\* of the final aggregate to join with.
KeySetInvariant ==
    /\ pc = "first_pass" =>
           /\ UniqueKeys(agg_data.rows)
           /\ TableKeys(agg_data.rows)
                  = {GroupKey(SeenSoFar[i]) : i \in DOMAIN SeenSoFar}
    /\ (lib_op = "merge_aggregates"
        /\ UniqueKeys(lib_args.agg1) /\ UniqueKeys(lib_args.agg2)) =>
           /\ UniqueKeys(lib_ret)
           /\ TableKeys(lib_ret)
                  = TableKeys(lib_args.agg1) \cup TableKeys(lib_args.agg2)
    /\ pc \in {"second_pass", "done"} =>
           /\ UniqueKeys(agg_data.rows)
           /\ \A c \in 1..NumChunks(Len(cli.input.rows), cli.chunk_size) :
                  \A i \in DOMAIN Survivors(c) :
                      Cardinality({j \in DOMAIN agg_data.rows :
                          agg_data.rows[j].key = GroupKey(Survivors(c)[i])}) <= 1

\* C13 witness (merge): two tables with unique keys that share a key while one
\* of them has a key the other lacks
KeySetMergeWitness ==
    /\ lib_op = "merge_aggregates"
    /\ UniqueKeys(lib_args.agg1) /\ UniqueKeys(lib_args.agg2)
    /\ TableKeys(lib_args.agg1) \cap TableKeys(lib_args.agg2) # {}
    /\ TableKeys(lib_args.agg1) # TableKeys(lib_args.agg2)

\* the group keys of the filtered, normalized rows of chunk c
ChunkKeys(c) == {GroupKey(Survivors(c)[i]) : i \in DOMAIN Survivors(c)}

\* C13 witness (first loop): of the chunks consumed, a later one has fed a key
\* an earlier one had, and a later one has brought a key no earlier one had
KeySetRunWitness ==
    /\ pc = "first_pass"
    /\ \E c1, c2 \in 1..chunk_num : c1 < c2 /\ ChunkKeys(c1) \cap ChunkKeys(c2) # {}
    /\ \E c1, c2 \in 1..chunk_num :
           /\ c1 < c2
           /\ ChunkKeys(c1) # {}
           /\ \E k \in ChunkKeys(c2) : \A c \in 1..(c2 - 1) : k \notin ChunkKeys(c)

====
